---- MODULE Spec2Model ----
(***************************************************************************)
(* State-reconciliation logic of the notes client (notes_frontend/src/    *)
(* App.js): the React state of App, the four asynchronous operations      *)
(* fetchNotes, createNote, saveNote and deleteNote, and the synchronous   *)
(* UI handlers (select, edit).  Each asynchronous function is split at    *)
(* its single await: the part before the await is the issuing action, the *)
(* part after it is the completion action.  A function invocation keeps   *)
(* the values of the render it was created in (its closure); those are    *)
(* stored in the in-flight call record.  The remote service is the        *)
(* environment: it keeps a list of notes and answers each request once.   *)
(* No handler reads the timestamps; updated_at is kept as the number of    *)
(* times the service has saved the note, created_at is left out.          *)
(***************************************************************************)
EXTENDS Integers, Sequences, FiniteSets, TLC

\* ---------------------------------------------------------------- bounds
MaxIntents == 2      \* user intents (clicks and edits) per behaviour

\* ------------------------------------------------------------- constants
NULL == -1000000000  \* JS null for selectedId; outside the tempId range
NoError == "null"    \* JS null for error

\* text typed into the title Input and the content TextArea
Titles == {"a"}
Contents == {"c"}

\* a note as created (locally or by the service): not saved yet
Note(i, t, c) == [id |-> i, title |-> t, content |-> c, updated_at |-> 0]

\* Math.floor(Math.random() * 1e9) * -1 ranges over 0, -1 .. -999999999;
\* two of these values
TempIds == {0, -1}

\* what the service may hold when the page loads
InitServers == {<<>>, <<Note(1, "Untitled", ""), Note(0, "Untitled", "")>>}

VARIABLES
  notes,          \* useState([])     ordered collection
  loadingList,    \* useState(false)
  loadingSave,    \* useState(false)
  loadingDelete,  \* useState(false)
  error,          \* useState(null)
  selectedId,     \* useState(null)
  calls,          \* remote calls in flight, each with its closure
  nIntents,       \* number of intents the user has issued
  server,         \* the service's notes, newest first
  nextId          \* the next id the service assigns

vars == <<notes, loadingList, loadingSave, loadingDelete, error, selectedId,
          calls, nIntents, server, nextId>>

\* ---------------------------------------------------------------- helpers
\* Array.prototype.filter((n) => n.id !== id)
FilterOut(s, id) == SelectSeq(s, LAMBDA n : n.id # id)

Has(s, id) == \E i \in 1..Len(s) : s[i].id = id

\* Array.prototype.find((n) => n.id === id): first match
Find(s, id) == s[CHOOSE i \in 1..Len(s) : s[i].id = id /\ \A j \in 1..(i - 1) : s[j].id # id]

\* !selectedId : null and 0 are falsy
Falsy(x) == x = NULL \/ x = 0

\* selectedNote !== null
HasSelectedNote == Has(notes, selectedId)

selectedNote == Find(notes, selectedId)

NoResp == <<>>

Call(n, kind, id, title, content, selC, notesC) ==
  [n |-> n, kind |-> kind, id |-> id, title |-> title, content |-> content,
   selC |-> selC, notesC |-> notesC, phase |-> "sent", resp |-> NoResp]

\* e.message when fetch itself rejects (no response at all)
TransportMsg == "Failed to fetch"

\* e.message of `throw new Error(...)` on a non-2xx response (status 500)
StatusMsg(kind) ==
  CASE kind = "list" -> "Failed to load notes (500)"
    [] kind = "create" -> "Failed to create note (500)"
    [] kind = "save" -> "Failed to save note (500)"
    [] kind = "delete" -> "Failed to delete note (500)"

Kinds == {"list", "create", "save", "delete"}
Messages == {StatusMsg(k) : k \in Kinds} \cup {TransportMsg}

InFlight(kind) == {c \in calls : c.kind = kind}

\* the user acts (bounded per behaviour)
Intent == /\ nIntents < MaxIntents
          /\ nIntents' = nIntents + 1

\* in-flight calls are told apart by a slot number
Slots == 1..(MaxIntents + 1)
FreeSlot == CHOOSE n \in Slots : (\A c \in calls : c.n # n) /\
                                 (\A m \in Slots : m < n => \E c \in calls : c.n = m)

\* ------------------------------------------------------------------- Init
\* App after its first render and the mount effect: fetchNotes() has run up
\* to its await with selectedId = null in its closure.
Init ==
  /\ notes = <<>>
  /\ loadingList = TRUE
  /\ loadingSave = FALSE
  /\ loadingDelete = FALSE
  /\ error = NoError
  /\ selectedId = NULL
  /\ nIntents = 0
  /\ calls = {Call(1, "list", NULL, "", "", NULL, <<>>)}
  /\ server \in InitServers
  /\ nextId = Len(server)

\* ------------------------------------------------- issuing (before await)
Issue(c) == calls' = calls \cup {c}

\* fetchNotes up to `await fetch` (Refresh button, never disabled)
fetchNotes ==
  /\ Intent
  /\ loadingList' = TRUE
  /\ Issue(Call(FreeSlot, "list", NULL, "", "", selectedId, <<>>))
  /\ UNCHANGED <<notes, loadingSave, loadingDelete, error, selectedId, server, nextId>>

\* createNote up to `await fetch` ("+ New" button, disabled={loadingSave})
createNote(tempId) ==
  /\ Intent
  /\ ~loadingSave
  /\ loadingSave' = TRUE
  /\ notes' = <<Note(tempId, "Untitled", "")>> \o notes
  /\ selectedId' = tempId
  /\ Issue(Call(FreeSlot, "create", tempId, "Untitled", "", selectedId, <<>>))
  /\ UNCHANGED <<loadingList, loadingDelete, error, server, nextId>>

\* createNote when the random tempId is negative and not yet in the collection
createNoteFresh(tempId) ==
  /\ tempId < 0
  /\ ~Has(notes, tempId)
  /\ createNote(tempId)

\* saveNote(selectedNote) up to `await fetch` (Save button, disabled={loadingSave})
saveNote ==
  /\ Intent
  /\ HasSelectedNote
  /\ ~loadingSave
  /\ loadingSave' = TRUE
  /\ Issue(Call(FreeSlot, "save", selectedNote.id, selectedNote.title,
                selectedNote.content, selectedId, <<>>))
  /\ UNCHANGED <<notes, loadingList, loadingDelete, error, selectedId, server, nextId>>

\* saveNote(updated) called while another create or save is still pending (the
\* function itself has no guard; the Save button has)
saveNoteCall ==
  /\ Intent
  /\ HasSelectedNote
  /\ loadingSave' = TRUE
  /\ Issue(Call(FreeSlot, "save", selectedNote.id, selectedNote.title,
                selectedNote.content, selectedId, <<>>))
  /\ UNCHANGED <<notes, loadingList, loadingDelete, error, selectedId, server, nextId>>

\* createNote() called while another create or save is still pending
createNoteCall(tempId) ==
  /\ Intent
  /\ loadingSave' = TRUE
  /\ notes' = <<Note(tempId, "Untitled", "")>> \o notes
  /\ selectedId' = tempId
  /\ Issue(Call(FreeSlot, "create", tempId, "Untitled", "", selectedId, <<>>))
  /\ UNCHANGED <<loadingList, loadingDelete, error, server, nextId>>

\* deleteNote made optimistic: the note is filtered out before the await
deleteNoteOptimistic ==
  /\ Intent
  /\ HasSelectedNote
  /\ ~loadingDelete
  /\ loadingDelete' = TRUE
  /\ notes' = FilterOut(notes, selectedNote.id)
  /\ Issue(Call(FreeSlot, "delete", selectedNote.id, "", "", selectedId, notes))
  /\ UNCHANGED <<loadingList, loadingSave, error, selectedId, server, nextId>>

\* deleteNote(selectedNote.id) up to `await fetch` (Delete button,
\* disabled={loadingDelete}); the closure holds this render's selectedId and notes
deleteNote ==
  /\ Intent
  /\ HasSelectedNote
  /\ ~loadingDelete
  /\ loadingDelete' = TRUE
  /\ Issue(Call(FreeSlot, "delete", selectedNote.id, "", "", selectedId, notes))
  /\ UNCHANGED <<notes, loadingList, loadingSave, error, selectedId, server, nextId>>

\* ------------------------------------------------------ synchronous UI
\* list item onClick; the list is rendered only when !loadingList
selectNote(i) ==
  /\ Intent
  /\ ~loadingList
  /\ i \in 1..Len(notes)
  /\ selectedId' = notes[i].id
  /\ UNCHANGED <<notes, loadingList, loadingSave, loadingDelete, error, calls,
                 server, nextId>>

\* Input onChange whose map lacks the id test: every note gets the title
editTitleAll(v) ==
  /\ Intent
  /\ HasSelectedNote
  /\ notes' = [i \in 1..Len(notes) |-> [notes[i] EXCEPT !.title = v]]
  /\ UNCHANGED <<loadingList, loadingSave, loadingDelete, error, selectedId, calls,
                 server, nextId>>

\* Input onChange
editTitle(v) ==
  /\ Intent
  /\ HasSelectedNote
  /\ notes' = [i \in 1..Len(notes) |->
                IF notes[i].id = selectedNote.id THEN [notes[i] EXCEPT !.title = v]
                ELSE notes[i]]
  /\ UNCHANGED <<loadingList, loadingSave, loadingDelete, error, selectedId, calls,
                 server, nextId>>

\* TextArea onChange
editContent(v) ==
  /\ Intent
  /\ HasSelectedNote
  /\ notes' = [i \in 1..Len(notes) |->
                IF notes[i].id = selectedNote.id THEN [notes[i] EXCEPT !.content = v]
                ELSE notes[i]]
  /\ UNCHANGED <<loadingList, loadingSave, loadingDelete, error, selectedId, calls,
                 server, nextId>>

\* --------------------------------------------------- the remote service
Answer(c, r) == calls' = (calls \ {c}) \cup {[c EXCEPT !.phase = "done", !.resp = r]}

UIUnchanged == UNCHANGED <<notes, loadingList, loadingSave, loadingDelete, error,
                           selectedId, nIntents>>

\* GET /notes -> array of Note
serverList(c) ==
  /\ c.kind = "list" /\ c.phase = "sent"
  /\ Answer(c, server)
  /\ UNCHANGED <<server, nextId>>
  /\ UIUnchanged

\* POST /notes -> the created Note, with a server-assigned id
serverCreate(c) ==
  /\ c.kind = "create" /\ c.phase = "sent"
  /\ LET created == Note(nextId, c.title, c.content) IN
       /\ server' = <<created>> \o server
       /\ Answer(c, <<created>>)
  /\ nextId' = nextId + 1
  /\ UIUnchanged

\* PUT /notes/:id -> the updated Note
serverUpdate(c) ==
  /\ c.kind = "save" /\ c.phase = "sent"
  /\ Has(server, c.id)
  /\ LET saved == [Find(server, c.id) EXCEPT !.title = c.title, !.content = c.content,
                                              !.updated_at = @ + 1] IN
       /\ server' = [i \in 1..Len(server) |->
                      IF server[i].id = c.id THEN saved ELSE server[i]]
       /\ Answer(c, <<saved>>)
  /\ UNCHANGED nextId
  /\ UIUnchanged

\* DELETE /notes/:id -> 2xx
serverDelete(c) ==
  /\ c.kind = "delete" /\ c.phase = "sent"
  /\ Has(server, c.id)
  /\ server' = FilterOut(server, c.id)
  /\ Answer(c, <<>>)
  /\ UNCHANGED nextId
  /\ UIUnchanged

\* ------------------------------------------------ completions (after await)
\* the await returns a 2xx response the service has produced
Settled(c) == c \in calls /\ c.phase = "done"

\* the await ends in the catch block with e.message = msg: the service
\* refused the request with a non-2xx status, or fetch rejected because the
\* request never arrived; the service has changed nothing
Failed(c, msg) ==
  /\ c \in calls
  /\ c.phase = "sent"
  /\ msg \in {StatusMsg(c.kind), TransportMsg}

\* fetchNotes, try block after the await
fetchNotesOk(c) ==
  /\ c.kind = "list" /\ Settled(c)
  /\ LET data == c.resp IN
       /\ notes' = data
       /\ selectedId' = IF Len(data) > 0 /\ Falsy(c.selC) THEN data[1].id ELSE selectedId
  /\ error' = NoError
  /\ loadingList' = FALSE
  /\ calls' = calls \ {c}
  /\ UNCHANGED <<loadingSave, loadingDelete, nIntents, server, nextId>>

\* fetchNotes whose catch block empties the list
fetchNotesFailClears(c, msg) ==
  /\ c.kind = "list" /\ Failed(c, msg)
  /\ notes' = <<>>
  /\ error' = msg
  /\ loadingList' = FALSE
  /\ calls' = calls \ {c}
  /\ UNCHANGED <<selectedId, loadingSave, loadingDelete, nIntents, server, nextId>>

\* fetchNotes, catch and finally
fetchNotesFail(c, msg) ==
  /\ c.kind = "list" /\ Failed(c, msg)
  /\ error' = msg
  /\ loadingList' = FALSE
  /\ calls' = calls \ {c}
  /\ UNCHANGED <<notes, selectedId, loadingSave, loadingDelete, nIntents, server, nextId>>

\* createNote, try block after the await
createNoteOk(c) ==
  /\ c.kind = "create" /\ Settled(c)
  /\ LET created == c.resp[1] IN
       /\ notes' = <<created>> \o FilterOut(notes, c.id)
       /\ selectedId' = created.id
  /\ error' = NoError
  /\ loadingSave' = FALSE
  /\ calls' = calls \ {c}
  /\ UNCHANGED <<loadingList, loadingDelete, nIntents, server, nextId>>

\* createNote without its finally block: loadingSave is not released
createNoteFailKeepsBusy(c, msg) ==
  /\ c.kind = "create" /\ Failed(c, msg)
  /\ error' = msg
  /\ loadingList' = TRUE
  /\ calls' = (calls \ {c}) \cup {Call(c.n, "list", c.id, "", "", c.selC, <<>>)}
  /\ UNCHANGED <<notes, selectedId, loadingSave, loadingDelete, nIntents, server, nextId>>

\* createNote, catch and finally: setError, then fetchNotes() of the same
\* render (its closure has the selectedId from before the create) runs up to
\* its await.  The rollback call is tagged with the tempId it rolls back; no
\* handler reads the tag.
createNoteFail(c, msg) ==
  /\ c.kind = "create" /\ Failed(c, msg)
  /\ error' = msg
  /\ loadingList' = TRUE
  /\ calls' = (calls \ {c}) \cup {Call(c.n, "list", c.id, "", "", c.selC, <<>>)}
  /\ loadingSave' = FALSE
  /\ UNCHANGED <<notes, selectedId, loadingDelete, nIntents, server, nextId>>

\* saveNote that puts the saved note back when it is no longer in the list
saveNoteOkUpsert(c) ==
  /\ c.kind = "save" /\ Settled(c)
  /\ LET saved == c.resp[1] IN
       notes' = IF Has(notes, saved.id)
                THEN [i \in 1..Len(notes) |->
                       IF notes[i].id = saved.id THEN saved ELSE notes[i]]
                ELSE <<saved>> \o notes
  /\ error' = NoError
  /\ loadingSave' = FALSE
  /\ calls' = calls \ {c}
  /\ UNCHANGED <<selectedId, loadingList, loadingDelete, nIntents, server, nextId>>

\* saveNote that drops a response older than the note it has (last issued wins)
saveNoteOkNewerOnly(c) ==
  /\ c.kind = "save" /\ Settled(c)
  /\ LET saved == c.resp[1] IN
       notes' = [i \in 1..Len(notes) |->
                  IF notes[i].id = saved.id /\ notes[i].updated_at < saved.updated_at
                  THEN saved ELSE notes[i]]
  /\ error' = NoError
  /\ loadingSave' = FALSE
  /\ calls' = calls \ {c}
  /\ UNCHANGED <<selectedId, loadingList, loadingDelete, nIntents, server, nextId>>

\* saveNote, try block after the await
saveNoteOk(c) ==
  /\ c.kind = "save" /\ Settled(c)
  /\ LET saved == c.resp[1] IN
       notes' = [i \in 1..Len(notes) |->
                  IF notes[i].id = saved.id THEN saved ELSE notes[i]]
  /\ error' = NoError
  /\ loadingSave' = FALSE
  /\ calls' = calls \ {c}
  /\ UNCHANGED <<selectedId, loadingList, loadingDelete, nIntents, server, nextId>>

\* saveNote whose catch block puts back the title and content it sent
saveNoteFailRollback(c, msg) ==
  /\ c.kind = "save" /\ Failed(c, msg)
  /\ notes' = [i \in 1..Len(notes) |->
                IF notes[i].id = c.id THEN Note(c.id, c.title, c.content) ELSE notes[i]]
  /\ error' = msg
  /\ loadingSave' = FALSE
  /\ calls' = calls \ {c}
  /\ UNCHANGED <<selectedId, loadingList, loadingDelete, nIntents, server, nextId>>

\* saveNote, catch and finally
saveNoteFail(c, msg) ==
  /\ c.kind = "save" /\ Failed(c, msg)
  /\ error' = msg
  /\ loadingSave' = FALSE
  /\ calls' = calls \ {c}
  /\ UNCHANGED <<notes, selectedId, loadingList, loadingDelete, nIntents, server, nextId>>

\* deleteNote whose try block lacks setError(null)
deleteNoteOkKeepsError(c) ==
  /\ c.kind = "delete" /\ Settled(c)
  /\ notes' = FilterOut(notes, c.id)
  /\ selectedId' = IF c.selC = c.id
                   THEN LET remaining == FilterOut(c.notesC, c.id) IN
                        IF Len(remaining) > 0 THEN remaining[1].id ELSE NULL
                   ELSE selectedId
  /\ loadingDelete' = FALSE
  /\ calls' = calls \ {c}
  /\ UNCHANGED <<error, loadingList, loadingSave, nIntents, server, nextId>>

\* deleteNote, try block after the await: selectedId and notes are the
\* closure's (the render the Delete button was clicked in)
deleteNoteOk(c) ==
  /\ c.kind = "delete" /\ Settled(c)
  /\ notes' = FilterOut(notes, c.id)
  /\ selectedId' = IF c.selC = c.id
                   THEN LET remaining == FilterOut(c.notesC, c.id) IN
                        IF Len(remaining) > 0 THEN remaining[1].id ELSE NULL
                   ELSE selectedId
  /\ error' = NoError
  /\ loadingDelete' = FALSE
  /\ calls' = calls \ {c}
  /\ UNCHANGED <<loadingList, loadingSave, nIntents, server, nextId>>

\* deleteNote, catch and finally
deleteNoteFail(c, msg) ==
  /\ c.kind = "delete" /\ Failed(c, msg)
  /\ error' = msg
  /\ loadingDelete' = FALSE
  /\ calls' = calls \ {c}
  /\ UNCHANGED <<notes, selectedId, loadingList, loadingSave, nIntents, server, nextId>>

\* ------------------------------------------------------------------- Next
\* every step but the start of a create or a save
OtherSteps ==
  \/ fetchNotes
  \/ deleteNote
  \/ \E i \in 1..Len(notes) : selectNote(i)
  \/ \E v \in Titles : editTitle(v)
  \/ \E v \in Contents : editContent(v)
  \/ \E c \in calls : serverList(c)
  \/ \E c \in calls : serverCreate(c)
  \/ \E c \in calls : serverUpdate(c)
  \/ \E c \in calls : serverDelete(c)
  \/ \E c \in calls : fetchNotesOk(c)
  \/ \E c \in calls, msg \in Messages : fetchNotesFail(c, msg)
  \/ \E c \in calls : createNoteOk(c)
  \/ \E c \in calls, msg \in Messages : createNoteFail(c, msg)
  \/ \E c \in calls : saveNoteOk(c)
  \/ \E c \in calls, msg \in Messages : saveNoteFail(c, msg)
  \/ \E c \in calls : deleteNoteOk(c)
  \/ \E c \in calls, msg \in Messages : deleteNoteFail(c, msg)

Next ==
  \/ \E tempId \in TempIds : createNote(tempId)
  \/ saveNote
  \/ OtherSteps

Spec == Init /\ [][Next]_vars

\* The same program when Math.random() never yields 0 nor a tempId already in
\* the collection (all but about one draw in 1e9): every behaviour of
\* SpecFresh is a behaviour of Spec.
NextFresh ==
  \/ \E tempId \in TempIds : createNoteFresh(tempId)
  \/ saveNote
  \/ OtherSteps

SpecFresh == Init /\ [][NextFresh]_vars

\* The functions of the engine called without the buttons' disabled guards on
\* loadingSave: creates and saves may overlap.  Through the rendered buttons
\* these behaviours do not occur; the specification is for the statements
\* about overlapping saves and creates.
NextEngine ==
  \/ \E tempId \in TempIds : createNoteCall(tempId)
  \/ saveNoteCall
  \/ OtherSteps

SpecEngine == Init /\ [][NextEngine]_vars

\* ------------------------------------------------- steps, as observed
\* call c is in flight before the step and settled by it
Leaves(c) == c \in calls /\ \A d \in calls' : d.n # c.n \/ d.kind # c.kind

\* the await of c returned a 2xx response / ended in the catch block
Succeeds(c) == Leaves(c) /\ c.phase = "done"
Fails(c) == Leaves(c) /\ c.phase = "sent"

\* the calls the step puts in flight
Started == {c \in calls' : c.phase = "sent" /\ \A d \in calls : d.n # c.n \/ d.kind # c.kind}

FailureMsgs(kind) == {StatusMsg(kind), TransportMsg}

\* ----------------------------------------------------------------- claims

\* C1: in every reachable state all ids in the note collection are pairwise
\* distinct.
C1_DistinctIds ==
  \A i, j \in 1..Len(notes) : i # j => notes[i].id # notes[j].id

\* C2: in every reachable state, if selectedId is not none then the
\* collection contains a note with that id.
C2_SelectionInCollection ==
  selectedId # NULL => Has(notes, selectedId)

\* C3: immediately after a create success response is applied, the collection
\* contains exactly one note with the server-assigned id, no note with that
\* create's pending id, and selectedId equals the server id.
C3_CreateSuccess ==
  [][\A c \in calls : (c.kind = "create" /\ Succeeds(c)) =>
       /\ Cardinality({i \in 1..Len(notes') : notes'[i].id = c.resp[1].id}) = 1
       /\ ~Has(notes', c.id)
       /\ selectedId' = c.resp[1].id]_vars

\* C4: once the rollback refresh of a failed create has completed, no note
\* with that create's pending id remains in the collection, whether the
\* refresh succeeded or failed; and when it succeeded the collection equals
\* the list the refresh returned.
C4_RollbackRemovesPending ==
  [][\A c \in calls : (c.kind = "list" /\ c.id # NULL /\ Leaves(c)) =>
       /\ ~Has(notes', c.id)
       /\ Succeeds(c) => notes' = c.resp]_vars

\* C5: when a delete(id) success response is applied: if selectedId equals id
\* at that moment, selectedId becomes the id of the first note of the
\* collection as it is after the removal, or none if that is empty; otherwise
\* selectedId is left unchanged.
C5_DeleteReselects ==
  [][\A c \in calls : (c.kind = "delete" /\ Succeeds(c)) =>
       IF selectedId = c.id
       THEN selectedId' = IF Len(notes') > 0 THEN notes'[1].id ELSE NULL
       ELSE selectedId' = selectedId]_vars

\* C6: when a save fails, the collection is exactly what it was just before
\* the failure was handled (local edits kept, no other note changed) and the
\* error is set to the save failure message.
C6_SaveFailureKeepsEdits ==
  [][\A c \in calls : (c.kind = "save" /\ Fails(c)) =>
       /\ notes' = notes
       /\ error' \in FailureMsgs("save")]_vars

\* a save has failed and the note it was for still shows a local edit the
\* service does not have
C6_Witness ==
  /\ error = StatusMsg("save")
  /\ InFlight("save") = {}
  /\ \E i \in 1..Len(notes), j \in 1..Len(server) :
       /\ notes[i].id = server[j].id
       /\ notes[i].title = "a"
       /\ server[j].title = "Untitled"

\* C7: delete is not optimistic: issuing delete(id) does not change the
\* collection; the note is removed when the remote call succeeds; when it
\* fails the collection and selectedId are unchanged and the error is set.
C7_DeleteNotOptimistic ==
  [][/\ (\E c \in Started : c.kind = "delete") => notes' = notes
     /\ \A c \in calls : c.kind = "delete" =>
          /\ Fails(c) => /\ notes' = notes
                         /\ selectedId' = selectedId
                         /\ error' \in FailureMsgs("delete")
          /\ Succeeds(c) => notes' = FilterOut(notes, c.id)]_vars

\* a delete has failed and the note it was for is still selected and shown
C7_Witness ==
  /\ error = StatusMsg("delete")
  /\ InFlight("delete") = {}
  /\ HasSelectedNote

\* C8: immediately after any refresh, create, save or delete completion is
\* handled, the error is none if the operation succeeded and is that
\* operation's failure message if it failed.
C8_ErrorLatestWins ==
  [][\A c \in calls :
       /\ Succeeds(c) => error' = NoError
       /\ Fails(c) => error' \in FailureMsgs(c.kind)]_vars

\* a create has failed (its pending note is left over and no create is in
\* flight), which set the error, and a later success of another operation
\* has cleared it
C8_Witness ==
  /\ error = NoError
  /\ InFlight("create") = {}
  /\ Has(notes, -1)

\* C9: every call that settles clears the busy flag of its kind, so a flag is
\* set only while a call of its kind is in flight, and with no call in flight
\* all three flags are false.
C9_BusyFlagsReleased ==
  /\ [](/\ calls = {} => ~loadingList /\ ~loadingSave /\ ~loadingDelete
        /\ loadingList => InFlight("list") # {}
        /\ loadingSave => InFlight("create") \cup InFlight("save") # {}
        /\ loadingDelete => InFlight("delete") # {})
  /\ [][\A c \in calls : Leaves(c) =>
          /\ c.kind = "list" => ~loadingList'
          /\ c.kind \in {"create", "save"} => ~loadingSave'
          /\ c.kind = "delete" => ~loadingDelete']_vars

\* every call has settled, the last one by failing
C9_Witness ==
  /\ calls = {}
  /\ error # NoError
  /\ nIntents > 0

\* C10: create applies its optimistic state before the remote call is issued:
\* once the request is in flight the collection is the previous collection
\* with a pending note (negative id, title "Untitled", content "") inserted at
\* the head, selectedId is the pending id and the saving flag is true.
C10_CreateOptimistic ==
  [][\A c \in Started : c.kind = "create" =>
       /\ c.id < 0
       /\ notes' = <<Note(c.id, "Untitled", "")>> \o notes
       /\ selectedId' = c.id
       /\ loadingSave']_vars

\* C11: if two saves for the same id are in flight at once and both succeed,
\* the note at id ends equal to the server note carried by the response that
\* arrived last, whatever the order the saves were issued in: every save
\* response that is applied, also one applied while or after another save for
\* the same id was in flight, leaves the note at id equal to the note it
\* carries.
C11_LastSaveResponseWins ==
  [][\A c \in calls : (c.kind = "save" /\ Succeeds(c)) =>
       \A i \in 1..Len(notes') :
         notes'[i].id = c.id => notes'[i] = c.resp[1]]_vars

\* two saves for one id were in flight and both succeeded; the response of the
\* first save the service handled was applied last, so the note shows the
\* older server note
C11_Witness ==
  /\ InFlight("save") = {}
  /\ error = NoError
  /\ \E i \in 1..Len(notes), j \in 1..Len(server) :
       /\ notes[i].id = server[j].id
       /\ notes[i].updated_at = 1
       /\ server[j].updated_at = 2

\* what an edit of `field` of the selected note may change: that field of the
\* notes with the selected note's id, and nothing else
EditFrame(field) ==
  /\ Len(notes') = Len(notes)
  /\ \A i \in 1..Len(notes) :
       IF notes[i].id = selectedNote.id
       THEN [notes'[i] EXCEPT ![field] = notes[i][field]] = notes[i]
       ELSE notes'[i] = notes[i]
  /\ UNCHANGED <<selectedId, error, loadingList, loadingSave, loadingDelete, calls>>

\* C12: an edit of the title or content of the note with a given id changes
\* only that field of that note: every other note, the order and length of the
\* collection, selectedId, the error and the three busy flags are unchanged,
\* and no remote call is issued.
C12_EditFrame ==
  [][/\ (\E v \in Titles : editTitle(v)) => EditFrame("title")
     /\ (\E v \in Contents : editContent(v)) => EditFrame("content")]_vars

\* a title typed locally (the note was never saved) next to an untouched note
C12_Witness ==
  \E i, j \in 1..Len(notes) :
    /\ i # j
    /\ notes[i].title = "a" /\ notes[i].updated_at = 0
    /\ notes[j].title = "Untitled"

\* C13: every pending id synthesized by create is strictly negative and
\* differs from every id in the collection at the moment of insertion.
C13_PendingIdFresh ==
  [][\A c \in Started : c.kind = "create" =>
       /\ c.id < 0
       /\ ~Has(notes, c.id)]_vars

\* C14: when a refresh fails, the collection and selectedId are what they were
\* before the failure was handled and the error is the refresh failure
\* message; when a refresh succeeds, the collection equals the fetched list in
\* the fetched order.
C14_RefreshFrame ==
  [][\A c \in calls : c.kind = "list" =>
       /\ Fails(c) => /\ notes' = notes
                      /\ selectedId' = selectedId
                      /\ error' \in FailureMsgs("list")
       /\ Succeeds(c) => notes' = c.resp]_vars

\* a refresh has failed and the notes shown before it are still shown and
\* selected
C14_Witness ==
  /\ error = StatusMsg("list")
  /\ Len(notes) > 0
  /\ HasSelectedNote

\* C15: a successful refresh changes selectedId only when selectedId is none
\* at the moment the response is applied and the fetched list is non-empty,
\* and then to the first fetched note's id; a non-none selectedId (0 included,
\* or one set while the refresh was in flight) is left unchanged.
C15_RefreshSelection ==
  [][\A c \in calls : (c.kind = "list" /\ Succeeds(c)) =>
       selectedId' = IF selectedId = NULL /\ Len(c.resp) > 0
                     THEN c.resp[1].id ELSE selectedId]_vars

\* C16: on create success the server note replaces the pending note in place
\* (same position, the other notes in the same order); if no note with the
\* pending id is in the collection at that moment, the collection is left
\* unchanged.
C16_CreateReplacesInPlace ==
  [][\A c \in calls : (c.kind = "create" /\ Succeeds(c)) =>
       notes' = [i \in 1..Len(notes) |->
                  IF notes[i].id = c.id THEN c.resp[1] ELSE notes[i]]]_vars

\* C17: when a create success response is applied, selectedId moves to the
\* server id only if it equals that create's pending id at that moment;
\* otherwise it is left unchanged.
C17_CreateSelection ==
  [][\A c \in calls : (c.kind = "create" /\ Succeeds(c)) =>
       selectedId' = IF selectedId = c.id THEN c.resp[1].id ELSE selectedId]_vars

\* C18: after a failed create, once its rollback refresh has completed with
\* no other operation completing in between (the error still is the create's
\* failure message), the error is not none, whether the refresh succeeded or
\* failed.
C18_CreateFailureReported ==
  [][\A c \in calls :
       (c.kind = "list" /\ c.id # NULL /\ Leaves(c) /\ error \in FailureMsgs("create"))
         => error' # NoError]_vars

\* C19: in every reachable state listing is true whenever a refresh call is
\* in flight, saving whenever a create or save call is in flight, deleting
\* whenever a delete call is in flight.
C19_FlagsReflectInFlight ==
  /\ InFlight("list") # {} => loadingList
  /\ InFlight("create") \cup InFlight("save") # {} => loadingSave
  /\ InFlight("delete") # {} => loadingDelete

\* C20: a save success response applied when no note with its id is in the
\* collection leaves the collection unchanged.
C20_LateSaveNoReinsert ==
  [][\A c \in calls : (c.kind = "save" /\ Succeeds(c) /\ ~Has(notes, c.id)) =>
       notes' = notes]_vars

\* the service has saved the note and then deleted it, the delete has been
\* applied, and the save's response is the next thing saveNote resumes with
C20_Witness ==
  \E c \in InFlight("save") :
    /\ c.phase = "done"
    /\ ~Has(notes, c.id)
    /\ ~Has(server, c.id)
    /\ InFlight("delete") = {}

====
